---- MODULE Spec2Model ----
(***************************************************************************)
(* A model of ska::heap_top_updated, ska::WeightedDistribution and          *)
(* ska::ControlledRandom (controlled_random.hpp) and of the                 *)
(* heap_top_updated unit test (controlled_random.cpp).                      *)
(*                                                                          *)
(* Representation of the C++ values:                                        *)
(*   - a uint32_t that wraps (next_event_time, reference_point) is a pair   *)
(*     <<hi, lo>> of 16-bit limbs, because 2^32 - 1 does not fit TLC's      *)
(*     integers; all arithmetic on it is modulo 2^32;                       *)
(*   - a uint32_t that stays below 2^31 for every weight of the model       *)
(*     (average_time_between_events, to_add) is a natural number;           *)
(*   - a positive float is a pair <<m, e>> standing for m * 2^e with        *)
(*     2^23 <= m < 2^24 (a normalised IEEE-754 binary32 value); every       *)
(*     float operation rounds to nearest, ties to even;                     *)
(*   - the floats of ControlledRandom also take a sign, zero and subnormal  *)
(*     values: m is then any integer with |m| < 2^24 and e >= -149.         *)
(***************************************************************************)
EXTENDS Integers, Sequences, FiniteSets, TLC

----------------------------------------------------------------------------
(* Bounds of the model. *)

\* the largest number of options registered in one WeightedDistribution
MaxWeights == 3
\* the number of pick_random calls of one run that draw a non-zero increment
MaxPicks == 6
\* the number of initialize_randomness calls of one run
MaxInits == 2
\* a draw from uniform_int_distribution(0, a) is one of the DrawSteps + 1
\* values 0, a/DrawSteps, 2a/DrawSteps, ..., a
DrawSteps == 1
\* the heap_top_updated test: the longest array and the largest element
MaxLen == 4
MaxVal == 2

----------------------------------------------------------------------------
(* uint32_t with wraparound, as two 16-bit limbs. *)

Limb == 2^16

\* the uint32_t of a natural number below 2^31
ToU32(n) == <<n \div Limb, n % Limb>>

\* a + b in uint32_t arithmetic
Add32(a, b) ==
    LET lo == a[2] + b[2]
    IN  <<(a[1] + b[1] + (lo \div Limb)) % Limb, lo % Limb>>

\* a - b in uint32_t arithmetic
Sub32(a, b) ==
    LET borrow == IF a[2] < b[2] THEN 1 ELSE 0
    IN  <<(a[1] - b[1] - borrow + Limb) % Limb, (a[2] - b[2] + Limb) % Limb>>

\* a > b, a <= b on uint32_t
Gt32(a, b) == a[1] > b[1] \/ (a[1] = b[1] /\ a[2] > b[2])
Le32(a, b) == ~Gt32(a, b)

----------------------------------------------------------------------------
(* float (binary32), positive normal values only: <<m, e>> is m * 2^e. *)

MantMin == 2^23
MantMax == 2^24

IsFloat(f) == f[1] >= MantMin /\ f[1] < MantMax

\* a <= b for positive normalised floats
FloatLe(a, b) == a[2] < b[2] \/ (a[2] = b[2] /\ a[1] <= b[1])

\* round the rational (q + r/d) * 2^e, q an integer in [2^23, 2^24) and
\* 0 <= r < d, to the nearest float, ties to even
RoundNearestEven(q, r, d, e) ==
    LET up == (2 * r > d) \/ (2 * r = d /\ q % 2 = 1)
        m  == IF up THEN q + 1 ELSE q
    IN  IF m = MantMax THEN <<MantMin, e + 1>> ELSE <<m, e>>

\* <<floor(2^47 / m), 2^47 mod m>> for 2^23 < m < 2^24, by long division
\* from <<q, r>> = <<floor(2^n / m), 2^n mod m>> (2^47 itself does not fit an
\* integer of the model checker)
RECURSIVE PowTwoDivMod(_, _, _, _)
PowTwoDivMod(n, q, r, m) ==
    IF n = 47
    THEN <<q, r>>
    ELSE PowTwoDivMod(n + 1, 2 * q + ((2 * r) \div m), (2 * r) % m, m)

\* 1.0f / w
FloatReciprocal(w) ==
    IF w[1] = MantMin
    THEN <<MantMin, -46 - w[2]>>
    ELSE LET p == PowTwoDivMod(24, MantMax \div w[1], MantMax % w[1], w[1])
         IN  RoundNearestEven(p[1], p[2], w[1], -47 - w[2])

\* f * fixed_point_multiplier: a multiplication by a power of two is exact
fixed_point_multiplier_log2 == 20
TimesFixedPointMultiplier(f) == <<f[1], f[2] + fixed_point_multiplier_log2>>

\* static_cast<uint32_t>(f + 0.5f): the float sum f + 0.5f, rounded to
\* nearest-even, then truncated toward zero
round_positive_float(f) ==
    LET m == f[1]
        e == f[2]
    IN  IF e >= 1
        THEN \* ulp(f) >= 2: f + 0.5f rounds back to f
             m * 2^e
        ELSE IF e = 0
        THEN \* f + 0.5 is a tie between m and m + 1
             IF m % 2 = 0 THEN m ELSE m + 1
        ELSE IF e >= -24
        THEN \* the sum in units of 2^e is n; it is exact below 2^24 and
             \* loses its last bit (a tie) from 2^24 on
             LET k  == -e
                 n  == m + 2^(k - 1)
                 h  == n \div 2
                 hr == IF n % 2 = 1 /\ h % 2 = 1 THEN h + 1 ELSE h
             IN  IF n < MantMax THEN n \div 2^k ELSE (2 * hr) \div 2^k
        ELSE IF e = -25
        THEN \* f < 0.5: the sum is below 1 unless it rounds up to 1.0f
             LET q  == m \div 2
                 up == m % 2 = 1 /\ q % 2 = 1
             IN  IF MantMin + q + (IF up THEN 1 ELSE 0) >= MantMax THEN 1 ELSE 0
        ELSE 0

----------------------------------------------------------------------------
(* WeightedDistribution::Weight and the weight range. *)

min_weight == <<MantMin, -33>>          \* 1.0f / 1024.0f
max_weight == <<10485760, -10>>         \* 10240.0f

\* InRange without its lower bound: assert(w >= min_weight) left out
InRangeNoLowerBound(w) == FloatLe(w, max_weight)

\* the range check with a lower bound of 1/2048
InRangeHalfMinimum(w) == FloatLe(<<MantMin, -34>>, w) /\ FloatLe(w, max_weight)

InRange(w) == FloatLe(min_weight, w) /\ FloatLe(w, max_weight)

\* the constructor with next_event_time left at 0 instead of being set to
\* average_time_between_events
WeightCtorNextEventZero(frequency, original_index) ==
    [ next_event_time             |-> ToU32(0),
      average_time_between_events |->
          round_positive_float(TimesFixedPointMultiplier(frequency)),
      original_index              |-> original_index ]

\* Weight::Weight(frequency, original_index)
WeightCtor(frequency, original_index) ==
    LET a == round_positive_float(TimesFixedPointMultiplier(frequency))
    IN  [ next_event_time             |-> ToU32(a),
          average_time_between_events |-> a,
          original_index              |-> original_index ]

\* the average_time_between_events add_weight(w) derives from w
AverageOf(w) == WeightCtor(FloatReciprocal(w), 0).average_time_between_events

----------------------------------------------------------------------------
(* Comparators.  A comparator is a record, Compare applies it. *)

\* WeightedDistribution::CompareByNextTime{reference_point}
CompareByNextTime(reference_point) ==
    [kind |-> "CompareByNextTime", reference_point |-> reference_point]

\* a comparator over plain values given by a rank of each value: every strict
\* weak ordering of a finite set is one; std::less<> is the identity rank
CompareByRank(rank) == [kind |-> "rank", rank |-> rank]

\* the comparison of the side-by-side copy whose counters never wrap:
\* next_event_time is compared directly
CompareUnbounded == [kind |-> "unbounded"]

\* Compare with the times compared as they are, the reference point ignored
CompareNoReference(cmp, l, r) ==
    CASE cmp.kind = "rank" -> cmp.rank[l] < cmp.rank[r]
      [] OTHER -> Gt32(l.next_event_time, r.next_event_time)

\* Compare with the comparison of CompareByNextTime turned around
CompareReversed(cmp, l, r) ==
    CASE cmp.kind = "CompareByNextTime" ->
            Gt32(Sub32(r.next_event_time, cmp.reference_point),
                 Sub32(l.next_event_time, cmp.reference_point))
      [] cmp.kind = "rank" -> cmp.rank[l] < cmp.rank[r]
      [] cmp.kind = "unbounded" -> Gt32(l.next_event_time, r.next_event_time)

\* compare(l, r)
Compare(cmp, l, r) ==
    CASE cmp.kind = "CompareByNextTime" ->
            Gt32(Sub32(l.next_event_time, cmp.reference_point),
                 Sub32(r.next_event_time, cmp.reference_point))
      [] cmp.kind = "rank" -> cmp.rank[l] < cmp.rank[r]
      [] cmp.kind = "unbounded" -> Gt32(l.next_event_time, r.next_event_time)

----------------------------------------------------------------------------
(* Heaps.  Positions are the 0-based positions of the source; position i  *)
(* of the array a is a[i + 1].                                             *)

At(a, i) == a[i + 1]

\* a swap that overwrites: begin[i] = begin[j] without saving begin[i]
SwapOverwrites(a, i, j) == [a EXCEPT ![i + 1] = a[j + 1]]

Swap(a, i, j) == [a EXCEPT ![i + 1] = a[j + 1], ![j + 1] = a[i + 1]]

\* ChildToUpdate that never looks at the second child
ChildToUpdateFirstOnly(a, cmp, current) == current * 2 + 1

\* the child heap_top_updated looks at from `current`: the second child when
\* it exists and the first child compares below it
ChildToUpdate(a, cmp, current) ==
    LET first_child  == current * 2 + 1
        second_child == first_child + 1
    IN  IF second_child < Len(a) /\ Compare(cmp, At(a, first_child), At(a, second_child))
        THEN second_child
        ELSE first_child

\* HeapTopUpdatedFrom with an `if` for the loop: at most one swap
HeapTopUpdatedOnce(a, cmp, current) ==
    IF current * 2 + 1 >= Len(a)
    THEN a
    ELSE LET child_to_update == ChildToUpdate(a, cmp, current)
         IN  IF ~Compare(cmp, At(a, current), At(a, child_to_update))
             THEN a
             ELSE Swap(a, current, child_to_update)

\* the loop without `if (!compare(begin[current], begin[child_to_update]))
\* break;`: the entry sinks to a leaf whatever it compares to
RECURSIVE HeapTopUpdatedAlwaysSwaps(_, _, _)
HeapTopUpdatedAlwaysSwaps(a, cmp, current) ==
    IF current * 2 + 1 >= Len(a)
    THEN a
    ELSE LET child_to_update == ChildToUpdate(a, cmp, current)
         IN  HeapTopUpdatedAlwaysSwaps(Swap(a, current, child_to_update), cmp,
                                       child_to_update)

\* the loop of heap_top_updated, entered at `current`
RECURSIVE HeapTopUpdatedFrom(_, _, _)
HeapTopUpdatedFrom(a, cmp, current) ==
    IF current * 2 + 1 >= Len(a)
    THEN a
    ELSE LET child_to_update == ChildToUpdate(a, cmp, current)
         IN  IF ~Compare(cmp, At(a, current), At(a, child_to_update))
             THEN a
             ELSE HeapTopUpdatedFrom(Swap(a, current, child_to_update), cmp,
                                     child_to_update)

\* heap_top_updated(begin, end, compare)
heap_top_updated(a, cmp) == HeapTopUpdatedFrom(a, cmp, 0)

\* a comparator about which nothing is known: each call returns either value
AnyCompare == [kind |-> "any"]

\* what compare(l, r) can return
Outcomes(cmp, l, r) == IF cmp.kind = "any" THEN BOOLEAN ELSE {Compare(cmp, l, r)}

\* the body of the loop without `current = child_to_update`
HeapTopUpdatedIterationNoAdvance(a, cmp, cur) ==
    LET child  == cur * 2 + 1
        second == child + 1
    IN  IF child >= Len(a)
        THEN {[begin |-> a, current |-> cur, done |-> TRUE, swapped |-> 0, compared |-> 0]}
        ELSE UNION {
               LET c == IF b1 THEN second ELSE child
                   n == IF second < Len(a) THEN 2 ELSE 1
               IN  { IF ~b2
                     THEN [begin |-> a, current |-> cur, done |-> TRUE,
                           swapped |-> 0, compared |-> n]
                     ELSE [begin |-> Swap(a, cur, c), current |-> cur, done |-> FALSE,
                           swapped |-> 1, compared |-> n]
                     : b2 \in Outcomes(cmp, At(a, cur), At(a, c)) }
               : b1 \in IF second < Len(a)
                        THEN Outcomes(cmp, At(a, child), At(a, second))
                        ELSE {FALSE} }

\* one pass through the body of the loop of heap_top_updated, entered with
\* `current` = cur: the array and `current` it can leave, whether it leaves
\* the loop (done), and how many swaps and calls of compare it made
HeapTopUpdatedIteration(a, cmp, cur) ==
    LET child  == cur * 2 + 1
        second == child + 1
    IN  IF child >= Len(a)
        THEN {[begin |-> a, current |-> cur, done |-> TRUE, swapped |-> 0, compared |-> 0]}
        ELSE UNION {
               LET c == IF b1 THEN second ELSE child
                   n == IF second < Len(a) THEN 2 ELSE 1
               IN  { IF ~b2
                     THEN [begin |-> a, current |-> cur, done |-> TRUE,
                           swapped |-> 0, compared |-> n]
                     ELSE [begin |-> Swap(a, cur, c), current |-> c, done |-> FALSE,
                           swapped |-> 1, compared |-> n]
                     : b2 \in Outcomes(cmp, At(a, cur), At(a, c)) }
               : b1 \in IF second < Len(a)
                        THEN Outcomes(cmp, At(a, child), At(a, second))
                        ELSE {FALSE} }

\* the max-heap property at position i >= 1: its parent does not compare
\* below it
HeapAt(a, cmp, i) == ~Compare(cmp, At(a, (i - 1) \div 2), At(a, i))

\* std::is_heap(begin, end, compare)
is_heap(a, cmp) == \A i \in 1 .. Len(a) - 1 : HeapAt(a, cmp, i)

\* the arrangements of the elements of a
Arrangements(a) ==
    LET n == Len(a)
        P == {p \in [1 .. n -> 1 .. n] : \A i, j \in 1 .. n : p[i] = p[j] => i = j}
    IN  {[i \in 1 .. n |-> a[p[i]]] : p \in P}

\* std::make_heap(begin, end, compare): the standard promises a heap made of
\* the same elements and no particular one, so every such heap is a result
make_heap(a, cmp) == {b \in Arrangements(a) : is_heap(b, cmp)}

\* std::push_heap(begin, end, compare) on a range whose last element was just
\* appended to a heap: again any heap of the same elements
push_heap(a, cmp) == {b \in Arrangements(a) : is_heap(b, cmp)}

----------------------------------------------------------------------------
(* The operations of WeightedDistribution as functions of the array. *)

\* the values a draw of std::uniform_int_distribution<uint32_t>(0, a) takes
\* in the model: 0, a, and the multiples of a / DrawSteps between them
Draws(a) == {IF k = DrawSteps THEN a ELSE (a \div DrawSteps) * k : k \in 0 .. DrawSteps}

\* one draw for every entry of ws, each from the range of its own entry
RECURSIVE DrawVectors(_)
DrawVectors(ws) ==
    IF ws = <<>>
    THEN {<<>>}
    ELSE LET n == Len(ws)
         IN  {Append(d, x) : d \in DrawVectors(SubSeq(ws, 1, n - 1)),
                             x \in Draws(ws[n].average_time_between_events)}

\* add_weight(w) past its two asserts: weights.emplace_back(1.0f / w, weights.size())
add_weight(ws, w) == Append(ws, WeightCtor(FloatReciprocal(w), Len(ws)))

\* the loop of initialize_randomness: every next_event_time is drawn afresh
Redraw(ws, d) ==
    [i \in 1 .. Len(ws) |-> [ws[i] EXCEPT !.next_event_time = ToU32(d[i])]]

\* initialize_randomness without its make_heap
initialize_randomness_no_heap(ws, d) == {Redraw(ws, d)}

\* initialize_randomness(randomness) with the draws d: the arrays it can leave
initialize_randomness(ws, d) == make_heap(Redraw(ws, d), CompareByNextTime(ToU32(0)))

\* pick_random that reads picked.original_index after heap_top_updated, when
\* the reference `picked` names whatever entry is at the front by then
pick_random_result_read_late(ws, to_add) ==
    LET reference_point == ws[1].next_event_time
        advanced        == [ws EXCEPT ![1].next_event_time = Add32(@, ToU32(to_add))]
        updated         == HeapTopUpdatedFrom(advanced, CompareByNextTime(reference_point), 0)
    IN  [ weights         |-> updated,
          result          |-> updated[1].original_index,
          reference_point |-> reference_point ]

\* pick_random without its call of heap_top_updated
pick_random_no_repair(ws, to_add) ==
    [ weights         |-> [ws EXCEPT ![1].next_event_time = Add32(@, ToU32(to_add))],
      result          |-> ws[1].original_index,
      reference_point |-> ws[1].next_event_time ]

\* pick_random(randomness) on a non-empty array with the draw to_add: the
\* array it leaves, the index it returns and the reference point it used
pick_random(ws, to_add) ==
    LET picked          == ws[1]
        reference_point == picked.next_event_time
        advanced        == [ws EXCEPT ![1].next_event_time = Add32(@, ToU32(to_add))]
    IN  [ weights         |-> heap_top_updated(advanced, CompareByNextTime(reference_point)),
          result          |-> picked.original_index,
          reference_point |-> reference_point ]

\* the same pick on the copy whose counters are unbounded integers: the high
\* limb is not reduced modulo 2^16 and the times are compared directly
AddUnbounded(a, b) ==
    LET lo == a[2] + b[2]
    IN  <<a[1] + b[1] + (lo \div Limb), lo % Limb>>

pick_random_unbounded(ws, to_add) ==
    LET advanced == [ws EXCEPT ![1].next_event_time = AddUnbounded(@, ToU32(to_add))]
    IN  [ weights |-> heap_top_updated(advanced, CompareUnbounded),
          result  |-> ws[1].original_index ]

----------------------------------------------------------------------------
(* float (binary32) with sign, zero and subnormal values, as ControlledRandom *)
(* needs them: <<m, e>> is m * 2^e with e >= -149; |m| < 2^23 only at         *)
(* e = -149 (subnormal); zero is <<0, -149>>.                                 *)

MinExp == -149
FloatZero == <<0, MinExp>>
FloatOne == <<MantMin, -23>>            \* 1.0f
FloatHundred == <<13107200, -17>>       \* 100.0f

Abs(n) == IF n < 0 THEN -n ELSE n

\* a <= b for floats of either sign
SignedFloatLe(a, b) ==
    IF a[1] <= 0 /\ b[1] >= 0 THEN TRUE
    ELSE IF a[1] > 0 /\ b[1] <= 0 THEN FALSE
    ELSE IF a[1] > 0 THEN FloatLe(a, b)
    ELSE FloatLe(<<-b[1], b[2]>>, <<-a[1], a[2]>>)

SignedFloatLt(a, b) == ~SignedFloatLe(b, a)

\* the number of bits of n: 0 for 0, k for 2^(k-1) <= n < 2^k
RECURSIVE BitLen(_)
BitLen(n) == IF n = 0 THEN 0 ELSE 1 + BitLen(n \div 2)

\* the exact product x * y of two mantissas below 2^24 as <<hi, lo>>, standing
\* for hi * 2^24 + lo, from their 12-bit halves
MantissaProduct(x, y) ==
    LET x1  == x \div 4096
        x0  == x % 4096
        y1  == y \div 4096
        y0  == y % 4096
        mid == x1 * y0 + x0 * y1
        t   == x0 * y0 + (mid % 4096) * 4096
    IN  <<x1 * y1 + (mid \div 4096) + (t \div MantMax), t % MantMax>>

\* (hi * 2^24 + lo) / 2^s rounded to the nearest integer, ties to even
ShiftRound(hi, lo, s) ==
    IF s = 0 THEN hi * MantMax + lo
    ELSE IF s <= 24
    THEN LET q    == hi * 2^(24 - s) + (lo \div 2^s)
             rem  == lo % 2^s
             half == 2^(s - 1)
         IN  IF rem > half \/ (rem = half /\ q % 2 = 1) THEN q + 1 ELSE q
    ELSE IF s > 48 THEN 0
    ELSE LET t    == s - 24
             q    == hi \div 2^t
             rem  == hi % 2^t
             half == 2^(t - 1)
         IN  IF rem > half \/ (rem = half /\ (lo > 0 \/ q % 2 = 1)) THEN q + 1 ELSE q

\* a * b, rounded to nearest, ties to even, with gradual underflow
FloatTimes(a, b) ==
    IF a[1] = 0 \/ b[1] = 0
    THEN FloatZero
    ELSE LET p    == MantissaProduct(Abs(a[1]), Abs(b[1]))
             bits == IF p[1] > 0 THEN 24 + BitLen(p[1]) ELSE BitLen(p[2])
             e    == a[2] + b[2]
             s    == IF bits - 24 > MinExp - e THEN bits - 24 ELSE MinExp - e
             m    == ShiftRound(p[1], p[2], s)
             sgn  == IF (a[1] < 0) = (b[1] < 0) THEN 1 ELSE -1
         IN  IF m = 0 THEN FloatZero
             ELSE IF m = MantMax THEN <<sgn * MantMin, e + s + 1>>
             ELSE <<sgn * m, e + s>>

\* the float next above a non-negative float
FloatSucc(a) ==
    IF a[1] + 1 = MantMax THEN <<MantMin, a[2] + 1>> ELSE <<a[1] + 1, a[2]>>

----------------------------------------------------------------------------
(* ControlledRandom. *)

\* constant_to_multiply[101]; entry i of the source is constant_to_multiply[i + 1]
constant_to_multiply ==
    << <<8388608, -23>>, <<16774579, -24>>, <<16766683, -24>>, <<16753516, -24>>,
       <<16735105, -24>>, <<16711441, -24>>, <<16682481, -24>>, <<16648372, -24>>,
       <<16609055, -24>>, <<16564534, -24>>, <<16514788, -24>>, <<16459958, -24>>,
       <<16399901, -24>>, <<16334843, -24>>, <<16264623, -24>>, <<16189448, -24>>,
       <<16109211, -24>>, <<16024518, -24>>, <<15934312, -24>>, <<15839629, -24>>,
       <<15739971, -24>>, <<15635428, -24>>, <<15526300, -24>>, <<15412339, -24>>,
       <<15293790, -24>>, <<15170724, -24>>, <<15043189, -24>>, <<14911135, -24>>,
       <<14774659, -24>>, <<14634167, -24>>, <<14489355, -24>>, <<14339702, -24>>,
       <<14186717, -24>>, <<14028946, -24>>, <<13867678, -24>>, <<13702849, -24>>,
       <<13533485, -24>>, <<13361417, -24>>, <<13185299, -24>>, <<13005533, -24>>,
       <<12822408, -24>>, <<12636612, -24>>, <<12446386, -24>>, <<12254059, -24>>,
       <<12057991, -24>>, <<11859717, -24>>, <<11657763, -24>>, <<11452840, -24>>,
       <<11246230, -24>>, <<11036874, -24>>, <<10825248, -24>>, <<10610913, -24>>,
       <<10394545, -24>>, <<10175833, -24>>, <<9956047, -24>>, <<9733636, -24>>,
       <<9509984, -24>>, <<9282705, -24>>, <<9057243, -24>>, <<8828317, -24>>,
       <<8598940, -24>>, <<16737418, -25>>, <<16275411, -25>>, <<15810222, -25>>,
       <<15344517, -25>>, <<14878503, -25>>, <<14411738, -25>>, <<13942084, -25>>,
       <<13474353, -25>>, <<13007442, -25>>, <<12539131, -25>>, <<12071043, -25>>,
       <<11605433, -25>>, <<11139437, -25>>, <<10675410, -25>>, <<10212818, -25>>,
       <<9752413, -25>>, <<9295409, -25>>, <<8840345, -25>>, <<16776278, -26>>,
       <<15874119, -26>>, <<14990967, -26>>, <<14101639, -26>>, <<13228215, -26>>,
       <<12359812, -26>>, <<11504247, -26>>, <<10657615, -26>>, <<9817514, -26>>,
       <<8989501, -26>>, <<16343477, -27>>, <<14730971, -27>>, <<13145279, -27>>,
       <<11585804, -27>>, <<10043227, -27>>, <<8533306, -27>>, <<14091700, -28>>,
       <<11164055, -28>>, <<16576465, -29>>, <<10949679, -29>>, <<10839528, -30>>,
       <<-8388608, -23>> >>

\* the float that stands for a NaN argument
NaN == <<"NaN">>

\* static_cast<uint32_t> of a NaN is undefined: any value, which the
\* constructor then clamps into 1 .. 99
ClampedIndices == 1 .. 99

Min(a, b) == IF a < b THEN a ELSE b
Max(a, b) == IF a > b THEN a ELSE b

\* the constructor without its std::max(..., 1u)
ControlledRandomCtorNoLowerClamp(odds) ==
    IF odds = NaN THEN ClampedIndices
    ELSE IF SignedFloatLe(odds, FloatZero) THEN {0}
    ELSE IF SignedFloatLe(FloatOne, odds) THEN {100}
    ELSE {Min(round_positive_float(FloatTimes(odds, FloatHundred)), 99)}

\* the constructor without its `odds >= 1.0f` branch
ControlledRandomCtorNoAlwaysSucceed(odds) ==
    IF odds = NaN THEN ClampedIndices
    ELSE IF SignedFloatLe(odds, FloatZero) THEN {0}
    ELSE {Min(Max(round_positive_float(FloatTimes(odds, FloatHundred)), 1), 99)}

\* ControlledRandom(float odds): the values it can leave in index
ControlledRandomCtor(odds) ==
    IF odds = NaN THEN ClampedIndices
    ELSE IF SignedFloatLe(odds, FloatZero) THEN {0}
    ELSE IF SignedFloatLe(FloatOne, odds) THEN {100}
    ELSE {Min(Max(round_positive_float(FloatTimes(odds, FloatHundred)), 1), 99)}

\* random_success that compares the draw with the state as it was before
\* the multiplication
random_success_compares_old_state(s, i, u) ==
    LET shrunk == FloatTimes(s, constant_to_multiply[i + 1])
    IN  IF SignedFloatLe(u, s)
        THEN [state |-> shrunk, result |-> FALSE]
        ELSE [state |-> FloatOne, result |-> TRUE]

\* random_success that leaves out `state = 1.0f`
random_success_no_reset(s, i, u) ==
    LET shrunk == FloatTimes(s, constant_to_multiply[i + 1])
    IN  [state |-> shrunk, result |-> ~SignedFloatLe(u, shrunk)]

\* random_success(randomness) with the draw u: the state it leaves and what
\* it returns
random_success(s, i, u) ==
    LET shrunk == FloatTimes(s, constant_to_multiply[i + 1])
    IN  IF SignedFloatLe(u, shrunk)
        THEN [state |-> shrunk, result |-> FALSE]
        ELSE [state |-> FloatOne, result |-> TRUE]

\* the values a draw of std::uniform_real_distribution<float>() takes in the
\* model, all in [0, 1): 0, the largest float below 1, the threshold of the
\* call and the float next above it
UniformDraws(threshold) ==
    {u \in {FloatZero, <<MantMax - 1, -24>>, threshold, FloatSucc(threshold)} :
        SignedFloatLe(FloatZero, u) /\ SignedFloatLt(u, FloatOne)}

----------------------------------------------------------------------------
(* The state. *)

VARIABLES
    weights,     \* WeightedDistribution::weights
    NDEBUG,      \* TRUE when the build compiles the asserts out
    last_op,     \* the last call made and how it ended
    reference,   \* the reference_point of the last pick_random, 0 after
                 \* initialize_randomness
    ready,       \* initialize_randomness was called and add_weight was not
                 \* called since
    registered,  \* the weights passed to add_weight, in registration order
    shadow,      \* the side-by-side copy with unbounded counters
    npicks,      \* pick_random calls that drew a non-zero increment
    ninits,      \* initialize_randomness calls
    tick,        \* the parity of the pick_random calls, kept only in LiveSpec
    heap,        \* the std::vector<int> of the heap_top_updated test
    order,       \* the rank that orders its values
    heap_in,     \* the array a repair was entered with
    phase,       \* what the heap variables hold
    arg,         \* a float handed to the weight conversion
    derived,     \* what the conversion made of it
    state,       \* ControlledRandom::state
    index,       \* ControlledRandom::index
    odds,        \* the argument the ControlledRandom was constructed with
    coin_op,     \* the last call made on the ControlledRandom
    run,         \* the random_success calls that failed since construction
                 \* or the last success
    begin,       \* the range a running heap_top_updated works on
    compare,     \* its comparator
    current,     \* its loop variable
    pc,          \* where it stands: "idle", in the "loop", or "done"
    caller,      \* who called it: "direct" or "pick_random"
    locals,      \* result, reference_point and to_add of the calling pick_random
    swaps,       \* the swaps it made
    comparisons  \* the calls of compare it made

vars == <<weights, NDEBUG, last_op, reference, ready, registered, shadow,
          npicks, ninits, tick, heap, order, heap_in, phase, arg, derived,
          state, index, odds, coin_op, run,
          begin, compare, current, pc, caller, locals, swaps, comparisons>>

picker_vars == <<weights, NDEBUG, last_op, reference, ready, registered, shadow,
                 npicks, ninits>>
heap_vars == <<heap, order, heap_in, phase>>
conv_vars == <<arg, derived>>
coin_vars == <<state, index, odds, coin_op, run>>
sift_vars == <<begin, compare, current, pc, caller, locals, swaps, comparisons>>

\* the weights add_weight is called with: the two ends of the supported
\* range, twice the minimum, and one float just outside each end
WeightSet ==
    { min_weight,               \* 1/1024
      <<MantMin, -32>>,         \* 1/512
      max_weight,               \* 10240
      <<MantMax - 1, -34>>,     \* the float just below 1/1024
      <<10485761, -10>> }       \* the float just above 10240

NoCall ==
    [ op |-> "none", outcome |-> "ok", w |-> <<>>, returned |-> <<>>,
      to_add |-> 0, shadow_returned |-> <<>> ]

\* the record of a call
Call(op, outcome, w, returned, to_add, shadow_returned) ==
    [ op |-> op, outcome |-> outcome, w |-> w,
      returned |-> returned, to_add |-> to_add, shadow_returned |-> shadow_returned ]

\* the process has neither aborted nor run into undefined behaviour
Alive == last_op.outcome = "ok"

\* every registered weight lies in [min_weight, max_weight]
AllInRange == \A i \in 1 .. Len(registered) : InRange(registered[i])

PickerInit ==
    /\ weights = <<>>
    /\ NDEBUG \in BOOLEAN
    /\ last_op = NoCall
    /\ reference = ToU32(0)
    /\ ready = FALSE
    /\ registered = <<>>
    /\ shadow = <<>>
    /\ npicks = 0
    /\ ninits = 0
    /\ tick = FALSE

HeapIdle == heap = <<>> /\ order = <<>> /\ heap_in = <<>> /\ phase = "idle"
ConvIdle == arg = <<>> /\ derived = <<>>

\* no call on a ControlledRandom yet
NoFlip == [op |-> "none", result |-> FALSE, u |-> <<>>, threshold |-> <<>>]

\* the member initialisers of ControlledRandom: state = 1.0f, index = 0
CoinIdle ==
    state = FloatOne /\ index = 0 /\ odds = <<>> /\ coin_op = NoFlip /\ run = 0

\* no heap_top_updated is running
NoLocals == [result |-> 0, reference_point |-> ToU32(0), to_add |-> 0]

SiftIdle ==
    /\ begin = <<>> /\ compare = AnyCompare /\ current = 0 /\ pc = "idle"
    /\ caller = "none" /\ locals = NoLocals /\ swaps = 0 /\ comparisons = 0

Init == PickerInit /\ HeapIdle /\ ConvIdle /\ CoinIdle /\ SiftIdle

----------------------------------------------------------------------------
(* The calls. *)

\* add_weight(w).  With the asserts compiled in, a weight out of range aborts
\* the process; compiled out (NDEBUG), the weight is appended like any other.
AddWeightOf(w) ==
    IF ~InRange(w) /\ ~NDEBUG
    THEN /\ last_op' = Call("add_weight", "abort", w, <<>>, 0, <<>>)
         /\ UNCHANGED <<weights, NDEBUG, reference, ready, registered, shadow,
                        npicks, ninits>>
    ELSE /\ weights' = add_weight(weights, w)
         /\ shadow' = add_weight(shadow, w)
         /\ registered' = Append(registered, w)
         /\ ready' = FALSE
         /\ last_op' = Call("add_weight", "ok", w, <<>>, 0, <<>>)
         /\ UNCHANGED <<NDEBUG, reference, npicks, ninits>>

AddWeightCall ==
    /\ Alive
    /\ Len(weights) < MaxWeights
    /\ \E w \in WeightSet : AddWeightOf(w)
    /\ UNCHANGED <<heap_vars, conv_vars, coin_vars, sift_vars>>

\* initialize_randomness(randomness)
InitializeRandomnessCall ==
    /\ Alive
    /\ AllInRange
    /\ ninits < MaxInits
    /\ \E d \in DrawVectors(weights) :
         \E b \in initialize_randomness(weights, d) :
            /\ weights' = b
            /\ shadow' = b
    /\ reference' = ToU32(0)
    /\ ready' = TRUE
    /\ ninits' = ninits + 1
    /\ last_op' = Call("initialize_randomness", "ok", <<>>, <<>>, 0, <<>>)
    /\ UNCHANGED <<NDEBUG, registered, npicks>>
    /\ UNCHANGED <<heap_vars, conv_vars, coin_vars, sift_vars>>

\* what weights.front() of an empty vector can do: a crash, or a read of
\* whatever lies there, returned as the index
EmptyFrontOutcomes ==
    {[outcome |-> "crash", returned |-> <<>>]}
        \cup {[outcome |-> "undefined", returned |-> <<g>>] : g \in 0 .. 1}

\* pick_random(randomness)
PickRandomCall ==
    /\ Alive
    /\ AllInRange
    /\ IF weights = <<>>
       THEN /\ \E u \in EmptyFrontOutcomes :
                 last_op' = Call("pick_random", u.outcome, <<>>, u.returned, 0, <<>>)
            /\ UNCHANGED <<weights, NDEBUG, reference, ready, registered, shadow,
                           npicks, ninits>>
       ELSE \E to_add \in Draws(weights[1].average_time_between_events) :
            /\ to_add = 0 \/ npicks < MaxPicks
            /\ LET r == pick_random(weights, to_add)
                   s == pick_random_unbounded(shadow, to_add)
               IN  /\ weights' = r.weights
                   /\ reference' = r.reference_point
                   /\ shadow' = s.weights
                   /\ last_op' = Call("pick_random", "ok", <<>>, <<r.result>>, to_add,
                                      <<s.result>>)
            /\ npicks' = IF to_add = 0 THEN npicks ELSE npicks + 1
            /\ UNCHANGED <<NDEBUG, ready, registered, ninits>>
    /\ UNCHANGED <<heap_vars, conv_vars, coin_vars, sift_vars>>

AddWeight == AddWeightCall /\ UNCHANGED tick
InitializeRandomness == InitializeRandomnessCall /\ UNCHANGED tick
PickRandom == PickRandomCall /\ UNCHANGED tick

Next == AddWeight \/ InitializeRandomness \/ PickRandom

Spec == Init /\ [][Next]_vars

----------------------------------------------------------------------------
(* LiveSpec: the picker used as documented with the two extreme weights,   *)
(* the caller calling pick_random for ever.  Every call of pick_random     *)
(* flips tick, so that a call is a step even when it leaves the picker as   *)
(* it was.                                                                  *)

Extremes == {min_weight, max_weight}

LiveAddWeight ==
    /\ ninits = 0 /\ npicks = 0
    /\ AddWeightCall
    /\ last_op'.w \in Extremes
    /\ UNCHANGED tick

LiveInitializeRandomness ==
    /\ ninits = 0
    /\ {registered[i] : i \in 1 .. Len(registered)} = Extremes
    /\ InitializeRandomnessCall
    /\ UNCHANGED tick

LivePickRandom ==
    /\ ready
    /\ PickRandomCall
    /\ tick' = ~tick

LiveNext == LiveAddWeight \/ LiveInitializeRandomness \/ LivePickRandom

LiveSpec == Init /\ [][LiveNext]_vars /\ WF_vars(LivePickRandom)

----------------------------------------------------------------------------
(* HeapSpec: heap_top_updated on its own.  The values are 0 .. MaxVal, the *)
(* comparator is any strict weak ordering of them.  A run either repairs   *)
(* one arbitrary array, or follows TEST(controlled_random,                  *)
(* heap_top_updated): push a value, overwrite the root, repair.             *)

Vals == 0 .. MaxVal

\* the strict weak orderings of Vals, each as the rank of its classes
Ranks ==
    {r \in [Vals -> Vals] : \E k \in Vals : {r[v] : v \in Vals} = 0 .. k}

Arrays == UNION {[1 .. n -> Vals] : n \in 0 .. MaxLen}

PickerIdle ==
    /\ weights = <<>> /\ NDEBUG = FALSE /\ last_op = NoCall
    /\ reference = ToU32(0) /\ ready = FALSE /\ registered = <<>>
    /\ shadow = <<>> /\ npicks = 0 /\ ninits = 0 /\ tick = FALSE

HeapInit ==
    /\ PickerIdle
    /\ SiftIdle
    /\ ConvIdle
    /\ CoinIdle
    /\ order \in Ranks
    /\ \/ phase = "input" /\ heap \in Arrays /\ heap_in = heap
       \/ phase = "test" /\ heap = <<>> /\ heap_in = <<>>

\* heap_top_updated(heap.begin(), heap.end(), compare) on the input array
Repair ==
    /\ phase = "input"
    /\ heap' = heap_top_updated(heap, CompareByRank(order))
    /\ phase' = "repaired"
    /\ UNCHANGED <<heap_in, order, picker_vars, tick, conv_vars, coin_vars, sift_vars>>

\* one iteration of the loop of the test: push_back and push_heap a value,
\* assign the root, heap_top_updated
TestIteration ==
    /\ phase = "test"
    /\ Len(heap) < MaxLen
    /\ \E v \in Vals, t \in Vals :
         \E pushed \in push_heap(Append(heap, v), CompareByRank(order)) :
            LET assigned == [pushed EXCEPT ![1] = t]
            IN  /\ heap_in' = assigned
                /\ heap' = heap_top_updated(assigned, CompareByRank(order))
    /\ UNCHANGED <<phase, order, picker_vars, tick, conv_vars, coin_vars, sift_vars>>

HeapNext == Repair \/ TestIteration

HeapSpec == HeapInit /\ [][HeapNext]_vars

----------------------------------------------------------------------------
(* ConvSpec: the conversion of a weight into average_time_between_events,  *)
(* on floats sampled over the whole supported range and just outside it.    *)

\* the number of evenly spaced mantissas sampled in every binade
MantSteps == 4

Mantissas ==
    {MantMin + k * (MantMin \div MantSteps) : k \in 0 .. MantSteps - 1}
        \cup {MantMin + 1, MantMax - 1}

\* the binades from that of min_weight to that of max_weight, and the two
\* floats next to the range
FloatSamples ==
    {<<m, e>> : m \in Mantissas, e \in min_weight[2] .. max_weight[2]}
        \cup {<<MantMax - 1, min_weight[2] - 1>>, <<max_weight[1] + 1, max_weight[2]>>}

ConvInit ==
    /\ PickerIdle
    /\ SiftIdle
    /\ HeapIdle
    /\ CoinIdle
    /\ arg \in FloatSamples
    /\ derived = <<>>

\* add_weight(arg) on an empty picker, its asserts compiled in: the
\* average_time_between_events of the entry it appends
Convert ==
    /\ derived = <<>>
    /\ InRange(arg)
    /\ derived' = <<add_weight(<<>>, arg)[1].average_time_between_events>>
    /\ UNCHANGED <<arg, picker_vars, tick, heap_vars, coin_vars, sift_vars>>

\* a weight out of range fails an assert
ConvertRejected ==
    /\ derived = <<>>
    /\ ~InRange(arg)
    /\ derived' = <<-1>>
    /\ UNCHANGED <<arg, picker_vars, tick, heap_vars, coin_vars, sift_vars>>

ConvNext == Convert \/ ConvertRejected

ConvSpec == ConvInit /\ [][ConvNext]_vars

----------------------------------------------------------------------------
(* CoinSpec: one ControlledRandom, constructed with any of the sampled      *)
(* arguments, then random_success called for ever with any draws.  A run of *)
(* failures is followed for MaxRun calls.                                   *)

MaxRun == 30

\* the floats nearest to k / 100, k = 0 .. 100
Hundredths ==
    { <<0, -149>>, <<10737418, -30>>, <<10737418, -29>>, <<16106127, -29>>,
      <<10737418, -28>>, <<13421773, -28>>, <<16106127, -28>>, <<9395241, -27>>,
      <<10737418, -27>>, <<12079596, -27>>, <<13421773, -27>>, <<14763950, -27>>,
      <<16106127, -27>>, <<8724152, -26>>, <<9395241, -26>>, <<10066330, -26>>,
      <<10737418, -26>>, <<11408507, -26>>, <<12079596, -26>>, <<12750684, -26>>,
      <<13421773, -26>>, <<14092861, -26>>, <<14763950, -26>>, <<15435039, -26>>,
      <<16106127, -26>>, <<8388608, -25>>, <<8724152, -25>>, <<9059697, -25>>,
      <<9395241, -25>>, <<9730785, -25>>, <<10066330, -25>>, <<10401874, -25>>,
      <<10737418, -25>>, <<11072963, -25>>, <<11408507, -25>>, <<11744051, -25>>,
      <<12079596, -25>>, <<12415140, -25>>, <<12750684, -25>>, <<13086228, -25>>,
      <<13421773, -25>>, <<13757317, -25>>, <<14092861, -25>>, <<14428406, -25>>,
      <<14763950, -25>>, <<15099494, -25>>, <<15435039, -25>>, <<15770583, -25>>,
      <<16106127, -25>>, <<16441672, -25>>, <<8388608, -24>>, <<8556380, -24>>,
      <<8724152, -24>>, <<8891924, -24>>, <<9059697, -24>>, <<9227469, -24>>,
      <<9395241, -24>>, <<9563013, -24>>, <<9730785, -24>>, <<9898557, -24>>,
      <<10066330, -24>>, <<10234102, -24>>, <<10401874, -24>>, <<10569646, -24>>,
      <<10737418, -24>>, <<10905190, -24>>, <<11072963, -24>>, <<11240735, -24>>,
      <<11408507, -24>>, <<11576279, -24>>, <<11744051, -24>>, <<11911823, -24>>,
      <<12079596, -24>>, <<12247368, -24>>, <<12415140, -24>>, <<12582912, -24>>,
      <<12750684, -24>>, <<12918456, -24>>, <<13086228, -24>>, <<13254001, -24>>,
      <<13421773, -24>>, <<13589545, -24>>, <<13757317, -24>>, <<13925089, -24>>,
      <<14092861, -24>>, <<14260634, -24>>, <<14428406, -24>>, <<14596178, -24>>,
      <<14763950, -24>>, <<14931722, -24>>, <<15099494, -24>>, <<15267267, -24>>,
      <<15435039, -24>>, <<15602811, -24>>, <<15770583, -24>>, <<15938355, -24>>,
      <<16106127, -24>>, <<16273900, -24>>, <<16441672, -24>>, <<16609444, -24>>,
      <<8388608, -23>> }

\* arguments of the constructor: the hundredths, values outside [0, 1],
\* values next to the ends and to the rounding boundaries, and a NaN
OddsSamples ==
    Hundredths \cup
    { <<-MantMin, -24>>,          \* -0.5
      <<MantMin, -22>>,           \* 2.0
      <<1, MinExp>>,              \* the smallest positive float
      <<10633824, -123>>,         \* 1e-30
      <<10735271, -31>>,          \* 0.004999
      <<10737419, -31>>,          \* the float next above 0.005
      <<16106127, -30>>,          \* 0.015f, a little below 0.015
      <<MantMin, -26>>,           \* 0.125
      <<16691652, -24>>,          \* 0.9949
      <<16693330, -24>>,          \* 0.995
      <<MantMax - 1, -24>>,       \* the float next below 1
      <<MantMin + 1, -23>>,       \* the float next above 1
      NaN }

CoinInit == PickerIdle /\ HeapIdle /\ ConvIdle /\ CoinIdle /\ SiftIdle

\* ControlledRandom(o)
Construct ==
    /\ coin_op.op = "none"
    /\ \E o \in OddsSamples :
         /\ odds' = o
         /\ index' \in ControlledRandomCtor(o)
    /\ state' = FloatOne
    /\ run' = 0
    /\ coin_op' = [op |-> "construct", result |-> FALSE, u |-> <<>>, threshold |-> <<>>]
    /\ UNCHANGED <<picker_vars, tick, heap_vars, conv_vars, sift_vars>>

\* random_success(randomness)
RandomSuccess ==
    /\ coin_op.op # "none"
    /\ LET threshold == FloatTimes(state, constant_to_multiply[index + 1])
       IN  \E u \in UniformDraws(threshold) :
             LET r == random_success(state, index, u)
             IN  /\ r.result \/ run < MaxRun
                 /\ state' = r.state
                 /\ run' = IF r.result THEN 0 ELSE run + 1
                 /\ coin_op' = [op |-> "random_success", result |-> r.result,
                                u |-> u, threshold |-> threshold]
    /\ UNCHANGED <<index, odds>>
    /\ UNCHANGED <<picker_vars, tick, heap_vars, conv_vars, sift_vars>>

CoinNext == Construct \/ RandomSuccess

CoinSpec == CoinInit /\ [][CoinNext]_vars

----------------------------------------------------------------------------
(* SiftSpec: heap_top_updated one pass of its loop at a time.  A run either *)
(* follows one call on an arbitrary array of up to MaxLen values, under a   *)
(* strict weak ordering or under a comparator that returns anything, or it  *)
(* follows a picker with the two extreme weights, whose pick_random calls   *)
(* heap_top_updated on the weights.                                         *)

MaxSiftPicks == 3

Comparators == {CompareByRank(r) : r \in Ranks} \cup {AnyCompare}

SiftInit ==
    /\ PickerIdle /\ HeapIdle /\ ConvIdle /\ CoinIdle
    /\ current = 0 /\ locals = NoLocals /\ swaps = 0 /\ comparisons = 0
    /\ \/ /\ caller = "direct" /\ pc = "loop"
          /\ begin \in Arrays
          /\ compare \in Comparators
       \/ /\ caller = "none" /\ pc = "idle"
          /\ begin = <<>>
          /\ compare = AnyCompare

\* add_weight(w), w one of the two extreme weights
SiftAddWeight ==
    /\ pc = "idle" /\ caller = "none"
    /\ AddWeightCall
    /\ last_op'.w \in Extremes
    /\ UNCHANGED tick

\* initialize_randomness(randomness)
SiftInitializeRandomness ==
    /\ pc = "idle" /\ caller = "none"
    /\ InitializeRandomnessCall
    /\ UNCHANGED tick

\* pick_random(randomness) up to its call of heap_top_updated: the root is
\* advanced in place and the repair is entered
PickStart ==
    /\ pc = "idle" /\ caller = "none"
    /\ Alive
    /\ weights # <<>>
    /\ \E to_add \in Draws(weights[1].average_time_between_events) :
         /\ to_add = 0 \/ npicks < MaxSiftPicks
         /\ npicks' = IF to_add = 0 THEN npicks ELSE npicks + 1
         /\ locals' = [result |-> weights[1].original_index,
                       reference_point |-> weights[1].next_event_time,
                       to_add |-> to_add]
         /\ weights' = [weights EXCEPT ![1].next_event_time = Add32(@, ToU32(to_add))]
    /\ begin' = weights'
    /\ compare' = CompareByNextTime(weights[1].next_event_time)
    /\ current' = 0 /\ swaps' = 0 /\ comparisons' = 0
    /\ pc' = "loop" /\ caller' = "pick_random"
    /\ UNCHANGED <<NDEBUG, last_op, reference, ready, registered, shadow, ninits, tick>>
    /\ UNCHANGED <<heap_vars, conv_vars, coin_vars>>

\* one pass through the body of the loop
SiftIterate ==
    /\ pc = "loop"
    /\ \E r \in HeapTopUpdatedIteration(begin, compare, current) :
         /\ begin' = r.begin
         /\ current' = r.current
         /\ pc' = IF r.done THEN "done" ELSE "loop"
         /\ swaps' = swaps + r.swapped
         /\ comparisons' = comparisons + r.compared
         /\ weights' = IF caller = "pick_random" THEN r.begin ELSE weights
    /\ UNCHANGED <<compare, caller, locals>>
    /\ UNCHANGED <<NDEBUG, last_op, reference, ready, registered, shadow, npicks, ninits,
                   tick>>
    /\ UNCHANGED <<heap_vars, conv_vars, coin_vars>>

\* heap_top_updated has returned: pick_random returns result
PickFinish ==
    /\ pc = "done" /\ caller = "pick_random"
    /\ last_op' = Call("pick_random", "ok", <<>>, <<locals.result>>, locals.to_add, <<>>)
    /\ reference' = locals.reference_point
    /\ pc' = "idle" /\ caller' = "none"
    /\ UNCHANGED <<begin, compare, current, locals, swaps, comparisons>>
    /\ UNCHANGED <<weights, NDEBUG, ready, registered, shadow, npicks, ninits, tick>>
    /\ UNCHANGED <<heap_vars, conv_vars, coin_vars>>

\* pick_random(randomness) on an empty picker
PickEmpty ==
    /\ pc = "idle" /\ caller = "none"
    /\ weights = <<>>
    /\ PickRandomCall
    /\ UNCHANGED tick

SiftNext ==
    SiftAddWeight \/ SiftInitializeRandomness \/ PickStart \/ SiftIterate
        \/ PickFinish \/ PickEmpty

SiftSpec == SiftInit /\ [][SiftNext]_vars

----------------------------------------------------------------------------
(* AddSpec: add_weight on the floats sampled over the supported range.  A   *)
(* picker is filled and initialised as in Spec; then one more weight, any   *)
(* of the sampled floats, is registered.                                    *)

AddKnownWeight == arg = <<>> /\ AddWeight

AddInitializeRandomness == arg = <<>> /\ InitializeRandomness

\* add_weight(w), w a sampled float
AddSampledWeight ==
    /\ arg = <<>>
    /\ Alive
    /\ Len(weights) < MaxWeights
    /\ \E w \in FloatSamples :
         /\ AddWeightOf(w)
         /\ arg' = <<w>>
    /\ UNCHANGED <<derived, tick, heap_vars, coin_vars, sift_vars>>

AddNext == AddKnownWeight \/ AddInitializeRandomness \/ AddSampledWeight

AddSpec == Init /\ [][AddNext]_vars

----------------------------------------------------------------------------
(* Vocabulary of the properties. *)

\* a step that is a pick_random call on a non-empty picker
PickStep == last_op'.op = "pick_random" /\ last_op'.outcome = "ok"

\* a step that is an add_weight call
AddStep == last_op'.op = "add_weight"

\* the position in ws of the entry with original_index i
PositionOf(ws, i) == CHOOSE k \in 1 .. Len(ws) : ws[k].original_index = i

\* (next_event_time - ref) mod 2^32 of the entry e
Distance(e, ref) == Sub32(e.next_event_time, ref)

\* the unbounded counter c reduced modulo 2^32
Wrapped(c) == <<c[1] % Limb, c[2]>>

\* some counter of the unbounded copy has passed 2^32
Overflowed == \E k \in 1 .. Len(shadow) : shadow[k].next_event_time[1] >= Limb

----------------------------------------------------------------------------
(* C1: used as documented (initialize_randomness, then only pick_random,   *)
(* all weights in range), every pick_random returns the original_index of  *)
(* an entry whose (next_event_time - reference) mod 2^32 is minimal over   *)
(* all entries, reference being the pre-increment next_event_time of the   *)
(* entry picked before (0 right after initialize_randomness).              *)
PickReturnsMinimal ==
    [][ (PickStep /\ ready /\ AllInRange) =>
          \E k \in 1 .. Len(weights) :
             /\ weights[k].original_index = last_op'.returned[1]
             /\ \A j \in 1 .. Len(weights) :
                   Le32(Distance(weights[k], reference), Distance(weights[j], reference))
      ]_vars

\* a pick made once a counter has wrapped, which returned the entry whose
\* counter had wrapped and left at the root an entry numerically above it
PickReturnsMinimalWitness ==
    /\ ready /\ AllInRange
    /\ last_op.op = "pick_random"
    /\ Len(weights) = 2
    /\ Overflowed
    /\ weights[1].next_event_time[1] >= weights[2].next_event_time[1] + 2^15
    /\ last_op.returned[1] # weights[1].original_index

----------------------------------------------------------------------------
\* the average_time_between_events of every weight of WeightSet
RegisteredAverage == [w \in WeightSet |-> AverageOf(w)]

(* C3: the original_index values in the array are exactly 0 .. n-1, each   *)
(* paired with the average_time_between_events of the weight registered at *)
(* that position; pick_random returns one of them, the original_index of   *)
(* the entry whose next_event_time the call advanced.                      *)
IdentityKept ==
    /\ Len(weights) = Len(registered)
    /\ {weights[k].original_index : k \in 1 .. Len(weights)} = 0 .. Len(registered) - 1
    /\ \A k \in 1 .. Len(weights) :
          weights[k].average_time_between_events
              = RegisteredAverage[registered[weights[k].original_index + 1]]

PickReturnsAdvancedEntry ==
    LET r == last_op'.returned[1]
    IN  /\ r \in 0 .. Len(registered) - 1
        /\ \A i \in 0 .. Len(registered) - 1 :
              LET before == weights[PositionOf(weights, i)].next_event_time
                  after  == weights'[PositionOf(weights', i)].next_event_time
              IN  after = IF i = r THEN Add32(before, ToU32(last_op'.to_add)) ELSE before

OriginalIndexIsIdentity ==
    [][ IdentityKept' /\ (PickStep => PickReturnsAdvancedEntry) ]_vars

\* a pick that returned an entry registered second or later, from an array
\* whose order is no longer the registration order
OriginalIndexIsIdentityWitness ==
    /\ last_op.op = "pick_random" /\ last_op.outcome = "ok"
    /\ last_op.returned[1] > 0
    /\ last_op.to_add > 0
    /\ Len(weights) = 3
    /\ weights[1].original_index = 2
    /\ weights[3].original_index = 0

----------------------------------------------------------------------------
(* C4: side by side with a copy that keeps unbounded counters and compares *)
(* them directly, on the same weights and draws, the picker returns the    *)
(* same original_index at every pick and every wrapped counter is the      *)
(* unbounded one modulo 2^32, also once counters have passed 2^32.         *)
WraparoundAgrees ==
    (ready /\ AllInRange) =>
        /\ Len(shadow) = Len(weights)
        /\ \A k \in 1 .. Len(weights) :
              /\ shadow[k].original_index = weights[k].original_index
              /\ Wrapped(shadow[k].next_event_time) = weights[k].next_event_time
        /\ (last_op.op = "pick_random" /\ last_op.outcome = "ok")
              => last_op.returned = last_op.shadow_returned

\* a pick made after a counter has wrapped, which moved the root
WraparoundAgreesWitness ==
    /\ ready /\ AllInRange
    /\ last_op.op = "pick_random"
    /\ Len(weights) >= 2
    /\ Overflowed
    /\ \E k \in 1 .. Len(shadow) : shadow[k].next_event_time[1] < Limb
    /\ weights[1].original_index # last_op.returned[1]

----------------------------------------------------------------------------
(* C2: whatever the array and the strict weak ordering, if every node      *)
(* other than the root satisfies the max-heap property relative to its     *)
(* children, the array is a max-heap after heap_top_updated; and in the    *)
(* test (push_heap a value, overwrite the root, heap_top_updated) is_heap  *)
(* holds after every iteration.                                            *)

\* every node other than the root is not below its children
RootOnlyOutOfPlace(a, cmp) ==
    \A i \in 1 .. Len(a) - 1 : (i - 1) \div 2 # 0 => HeapAt(a, cmp, i)

HeapRepairRestoresHeap ==
    /\ (phase = "repaired" /\ RootOnlyOutOfPlace(heap_in, CompareByRank(order)))
          => is_heap(heap, CompareByRank(order))
    /\ phase = "test" => is_heap(heap, CompareByRank(order))

\* an iteration of the test in which the assigned root sank two levels
HeapRepairRestoresHeapWitness ==
    /\ phase = "test"
    /\ Len(heap) = 4
    /\ ~is_heap(heap_in, CompareByRank(order))
    /\ heap[2] = heap_in[4]
    /\ heap[4] = heap_in[1]
    /\ order[heap[4]] < order[heap[2]]

----------------------------------------------------------------------------
(* C5 as stated: with both extreme weights registered and the picker       *)
(* initialised, in every run of pick_random calls every registered option  *)
(* is returned again after finitely many picks.                            *)
Returned(i) ==
    last_op.op = "pick_random" /\ last_op.outcome = "ok" /\ last_op.returned = <<i>>

----------------------------------------------------------------------------
(* C6 as stated: for every weight in [1/1024, 10240] the derived           *)
(* average_time_between_events is less than (2^32 - 1) / 4, which for an   *)
(* integer is: less than 2^30.                                             *)
Converted == derived # <<>> /\ derived[1] >= 0

----------------------------------------------------------------------------
(* C7: pick_random on a picker with no registered option is rejected with  *)
(* an error: it reads and modifies nothing and returns no index.           *)
Reported(outcome) == outcome \in {"abort", "InvalidArgument", "PreconditionViolation"}

EmptyPickRejected ==
    (last_op.op = "pick_random" /\ weights = <<>>)
        => (Reported(last_op.outcome) /\ last_op.returned = <<>>)

----------------------------------------------------------------------------
(* C8: add_weight with a weight below 1/1024 or above 10240 is rejected:   *)
(* it reports an error and leaves the collection of entries unchanged.     *)
OutOfRangeWeightRejected ==
    [][ (AddStep /\ ~InRange(last_op'.w))
            => (Reported(last_op'.outcome) /\ weights' = weights) ]_vars

----------------------------------------------------------------------------
(* C9: add_weight after initialize_randomness, and pick_random before it,  *)
(* yield a PreconditionViolation and leave the array unchanged.            *)
UsageOrderReported ==
    [][ ((AddStep /\ ninits > 0) \/ (last_op'.op = "pick_random" /\ ninits = 0))
            => (last_op'.outcome = "PreconditionViolation" /\ weights' = weights) ]_vars

----------------------------------------------------------------------------
(* C10: whenever initialize_randomness returns, the first time, a second   *)
(* time or after picks, every next_event_time lies in                      *)
(* [0, average_time_between_events] and the array is a max-heap under      *)
(* CompareByNextTime{0}, its root an entry of the smallest next_event_time.*)
InitializeEstablishesHeap ==
    last_op.op = "initialize_randomness" =>
        /\ \A k \in 1 .. Len(weights) :
              /\ Le32(weights[k].next_event_time,
                      ToU32(weights[k].average_time_between_events))
              /\ Le32(weights[1].next_event_time, weights[k].next_event_time)
        /\ is_heap(weights, CompareByNextTime(ToU32(0)))

\* the second initialize_randomness of a run, after picks, on three entries
\* that left registration order
InitializeEstablishesHeapWitness ==
    /\ last_op.op = "initialize_randomness"
    /\ ninits = 2
    /\ npicks >= 2
    /\ Len(weights) = 3
    /\ weights[1].original_index # 0
    /\ weights[1].next_event_time # weights[2].next_event_time


----------------------------------------------------------------------------
\* the array pick_random hands to heap_top_updated at this step: the root
\* advanced by the draw, everything else where it was
AdvancedArray == [weights EXCEPT ![1].next_event_time = Add32(@, ToU32(last_op'.to_add))]

QuarterRange == ToU32(2^30)

DistancesBounded ==
    (ready /\ AllInRange /\ Alive) =>
        /\ \A k \in 1 .. Len(weights) :
              Le32(Distance(weights[k], reference),
                   ToU32(weights[k].average_time_between_events))
        /\ \A j, k \in 1 .. Len(weights) :
              \/ Le32(Sub32(weights[j].next_event_time, weights[k].next_event_time),
                      QuarterRange)
              \/ Le32(Sub32(weights[k].next_event_time, weights[j].next_event_time),
                      QuarterRange)

\* after a pick past the wrap: an entry exactly 2^30 from the reference and
\* numerically below it
DistancesBoundedWitness ==
    /\ ready /\ AllInRange
    /\ last_op.op = "pick_random" /\ last_op.outcome = "ok"
    /\ Overflowed
    /\ Len(weights) >= 2
    /\ \E k \in 1 .. Len(weights) :
          /\ Distance(weights[k], reference) = QuarterRange
          /\ Gt32(reference, weights[k].next_event_time)

(* C18: pick_random changes the next_event_time of exactly one entry, the    *)
(* one that was at the root, by adding a draw in                             *)
(* [0, average_time_between_events] of that entry, modulo 2^32; every other  *)
(* next_event_time, every average_time_between_events and original_index     *)
(* and the number of entries stay; entries only change position.             *)
PickChangesOnlyRoot ==
    [][ PickStep =>
          /\ Len(weights') = Len(weights)
          /\ last_op'.to_add \in 0 .. weights[1].average_time_between_events
          /\ \A e \in {weights'[k] : k \in 1 .. Len(weights')} :
                Cardinality({k \in 1 .. Len(weights') : weights'[k] = e})
                    = Cardinality({k \in 1 .. Len(weights) : AdvancedArray[k] = e})
          /\ \A e \in {AdvancedArray[k] : k \in 1 .. Len(weights)} :
                \E k \in 1 .. Len(weights') : weights'[k] = e
      ]_vars

\* a pick on three entries that advanced the root and moved it to the last
\* position
PickChangesOnlyRootWitness ==
    /\ last_op.op = "pick_random" /\ last_op.outcome = "ok"
    /\ Len(weights) = 3
    /\ last_op.to_add > 0
    /\ weights[3].original_index = last_op.returned[1]
    /\ npicks >= 3

(* C19: for two consecutive picks after initialize_randomness the reference  *)
(* points, each the next_event_time of the picked entry before its           *)
(* increment, satisfy (later - earlier) mod 2^32 <= 2^30, also across the    *)
(* overflow of the counters.                                                 *)
ClockNeverRunsBackward ==
    [][ (PickStep /\ ready /\ AllInRange /\ last_op.op = "pick_random") =>
          Le32(Sub32(reference', reference), QuarterRange)
      ]_vars

\* a pick whose reference point lies past 2^32 on the unbounded copy (the
\* returned entry, advanced by 0, stands there) and is numerically small on
\* the wrapped counters, two options registered
ClockNeverRunsBackwardWitness ==
    /\ ready /\ AllInRange
    /\ last_op.op = "pick_random" /\ last_op.outcome = "ok"
    /\ Len(weights) = 2
    /\ reference[1] < 2^14
    /\ last_op.to_add = 0
    /\ \E k \in 1 .. Len(shadow) :
          /\ shadow[k].original_index = last_op.returned[1]
          /\ shadow[k].next_event_time[1] >= Limb

----------------------------------------------------------------------------
(* Vocabulary of the ControlledRandom properties. *)

\* the step is a call of random_success
FlipStep == coin_op'.op = "random_success"

\* the ControlledRandom exists
Constructed == coin_op.op # "none"

\* the last call was a random_success that returned false
LastFlipFailed == coin_op.op = "random_success" /\ ~coin_op.result

\* a float is normal: neither zero nor subnormal
IsNormal(f) == Abs(f[1]) >= MantMin

\* c * c * ... * c, k factors, multiplied from the left in binary32
RECURSIVE StateAfter(_, _)
StateAfter(i, k) ==
    IF k = 0 THEN FloatOne ELSE FloatTimes(StateAfter(i, k - 1), constant_to_multiply[i + 1])

StateAfterFailures == [i \in 0 .. 100 |-> [k \in 0 .. MaxRun + 1 |-> StateAfter(i, k)]]

\* what C11 says of one call, but for the order of the thresholds
FlipContract ==
    LET c == constant_to_multiply[index + 1]
    IN  /\ coin_op'.threshold = FloatTimes(state, c)
        /\ SignedFloatLe(FloatZero, coin_op'.u) /\ SignedFloatLt(coin_op'.u, FloatOne)
        /\ coin_op'.result = ~SignedFloatLe(coin_op'.u, coin_op'.threshold)
        /\ ~coin_op'.result => state' = coin_op'.threshold /\ run' = run + 1
        /\ coin_op'.result => state' = FloatOne /\ run' = 0
        /\ state' = StateAfterFailures[index][run']

(* C11 as stated: with a table index in 1 .. 99 and constant c, a call       *)
(* multiplies state by c, draws u in [0, 1), fails iff u <= state * c and    *)
(* then keeps the shrunk state, else succeeds and sets state to 1.0; after   *)
(* k failures in a row the state is c^k, and each threshold of a failure run *)
(* is strictly below the one before.  Stated of the coins constructed from   *)
(* a number.                                                                 *)
FailureRunStrictlyShrinks ==
    [][(FlipStep /\ index \in 1 .. 99 /\ odds # NaN) =>
          /\ FlipContract
          /\ LastFlipFailed => SignedFloatLt(coin_op'.threshold, coin_op.threshold)
          /\ ~LastFlipFailed => SignedFloatLt(coin_op'.threshold, FloatOne)]_vars

(* C11 as amended: the same, the products being binary32 products; the       *)
(* thresholds of a failure run never grow, and each is strictly below the    *)
(* one before as long as the one before is a normal float.  Below that the   *)
(* product underflows: the threshold can repeat, and reach 0.                *)
FailureRunShrinks ==
    [][(FlipStep /\ index \in 1 .. 99) =>
          /\ FlipContract
          /\ LastFlipFailed =>
                /\ SignedFloatLe(coin_op'.threshold, coin_op.threshold)
                /\ IsNormal(coin_op.threshold) =>
                      SignedFloatLt(coin_op'.threshold, coin_op.threshold)
          /\ ~LastFlipFailed => SignedFloatLt(coin_op'.threshold, FloatOne)]_vars

FailureRunShrinksWitness ==
    /\ index = 99
    /\ LastFlipFailed
    /\ run >= 24
    /\ state = FloatZero
    /\ coin_op.threshold = FloatZero

(* C12: a ControlledRandom constructed with a probability <= 0 has index 0,  *)
(* fails at every random_success whatever the draw in [0, 1), and its state  *)
(* is 1.0 before and after; one constructed with a probability >= 1 has      *)
(* index 100, succeeds at every call whatever the draw, and its state is 1.0 *)
(* after every call.                                                         *)
NeverSucceeds == odds # <<>> /\ odds # NaN /\ SignedFloatLe(odds, FloatZero)
AlwaysSucceeds == odds # <<>> /\ odds # NaN /\ SignedFloatLe(FloatOne, odds)

BoundaryCoinsDeterministic ==
    [][/\ NeverSucceeds' => index' = 0 /\ state' = FloatOne
       /\ AlwaysSucceeds' => index' = 100 /\ state' = FloatOne
       /\ (FlipStep /\ NeverSucceeds) => ~coin_op'.result
       /\ (FlipStep /\ AlwaysSucceeds) => coin_op'.result]_vars

BoundaryCoinsDeterministicWitness ==
    /\ AlwaysSucceeds
    /\ odds = <<MantMin, -22>>
    /\ coin_op.op = "random_success"
    /\ coin_op.u = FloatZero
    /\ coin_op.result

\* n / 2^k rounded to the nearest integer, halves upward, for k >= 1
NearestInteger(n, k) ==
    IF k > 31 THEN 0
    ELSE IF k = 31 THEN (IF n >= 2^30 THEN 1 ELSE 0)
    ELSE (n \div 2^k) + (IF n % 2^k >= 2^(k - 1) THEN 1 ELSE 0)

\* the index C13 gives a probability p, 0 < p < 1, from the number x = n / 2^k
\* taken for 100 * p
ClampedNearest(n, k) == Min(Max(NearestInteger(n, k), 1), 99)

\* the coin was constructed from a number
ConstructedFromNumber == Constructed /\ odds # NaN

StrictlyBetweenZeroAndOne ==
    SignedFloatLt(FloatZero, odds) /\ SignedFloatLt(odds, FloatOne)

SentinelsOnlyAtBoundaries ==
    /\ SignedFloatLe(odds, FloatZero) <=> index = 0
    /\ SignedFloatLe(FloatOne, odds) <=> index = 100

(* C13 as stated: the constructor gives p <= 0 the index 0, p >= 1 the index *)
(* 100, and any other p the index min(max(round-to-nearest(100 * p), 1),     *)
(* 99), 100 * p being the number one hundred times p; so index 0 only for    *)
(* p <= 0 and index 100 only for p >= 1.                                     *)
IndexIsNearestPercent ==
    ConstructedFromNumber =>
        /\ SentinelsOnlyAtBoundaries
        /\ StrictlyBetweenZeroAndOne => index = ClampedNearest(100 * odds[1], -odds[2])

(* C13 as amended: the same, with 100 * p the binary32 product               *)
(* odds * 100.0f, itself rounded to the nearest float, and halves rounded    *)
(* upward.                                                                   *)
IndexIsNearestOfFloatProduct ==
    ConstructedFromNumber =>
        /\ SentinelsOnlyAtBoundaries
        /\ StrictlyBetweenZeroAndOne =>
              LET x == FloatTimes(odds, FloatHundred)
              IN  index = ClampedNearest(x[1], -x[2])

IndexIsNearestOfFloatProductWitness ==
    /\ Constructed
    /\ odds = <<16106127, -30>>
    /\ index = 2
    /\ coin_op.op = "construct"

\* what C20 says of a step, but for the lower end of the range of state
CoinStateKept ==
    /\ SignedFloatLe(state', FloatOne)
    /\ coin_op'.op = "construct" => state' = FloatOne
    /\ (FlipStep /\ coin_op'.result) => state' = FloatOne
    /\ index' \in 0 .. 100
    /\ FlipStep => index' = index

(* C20 as stated: after construction and after every random_success,        *)
(* whatever the draws, state lies in (0, 1], is exactly 1.0 after            *)
(* construction and after every success, and index lies in [0, 100] and is   *)
(* not changed by random_success.  Stated of the coins constructed from a    *)
(* number.                                                                   *)
StateInHalfOpenUnitInterval ==
    [][odds' # NaN => (CoinStateKept /\ SignedFloatLt(FloatZero, state'))]_vars

(* C20 as amended: state lies in [0, 1]; it is 0.0 once a run of failures    *)
(* has made the product underflow.                                           *)
StateInUnitInterval ==
    [][CoinStateKept /\ SignedFloatLe(FloatZero, state')]_vars

StateInUnitIntervalWitness ==
    /\ index = 98
    /\ odds = <<16441672, -24>>
    /\ LastFlipFailed
    /\ state = FloatZero

----------------------------------------------------------------------------
\* the step is one pass through the loop of heap_top_updated
LoopStep == pc = "loop" /\ pc' # "idle"

\* the step is the return of a pick_random
PickReturnStep == pc = "done" /\ pc' = "idle" /\ caller = "pick_random"

(* C21: heap_top_updated terminates on every array and every comparator:    *)
(* a pass through its loop either leaves the loop or moves `current` to     *)
(* 2 * current + 1 or 2 * current + 2, which stays below the number n of    *)
(* elements; it makes at most floor(log2(n)) swaps (2^swaps <= n); for      *)
(* n <= 1 it calls compare not once and leaves the array as it was; and     *)
(* pick_random on a picker with one option returns index 0.                 *)
HeapRepairTerminates ==
    [][ /\ LoopStep =>
             /\ Len(begin') = Len(begin)
             /\ pc' = "loop" =>
                   /\ current' \in {2 * current + 1, 2 * current + 2}
                   /\ current' > current
                   /\ current' < Len(begin)
                   /\ swaps' = swaps + 1
             /\ pc' = "done" => current' = current /\ swaps' = swaps /\ begin' = begin
             /\ IF Len(begin) = 0 THEN swaps' = 0 ELSE 2^swaps' <= Len(begin)
             /\ Len(begin) <= 1 => comparisons' = 0 /\ begin' = begin /\ pc' = "done"
        /\ (PickReturnStep /\ Len(weights) = 1) =>
             /\ last_op'.returned = <<0>>
             /\ comparisons = 0 /\ swaps = 0
      ]_vars

\* a call on four values under a strict weak ordering that swapped twice,
\* floor(log2(4)) times, and ended at the last position
HeapRepairTerminatesWitness ==
    /\ caller = "direct"
    /\ pc = "done"
    /\ compare.kind = "rank"
    /\ Len(begin) = 4
    /\ swaps = 2
    /\ current = 3
    /\ comparisons = 3

----------------------------------------------------------------------------
\* <<floor(2^(24 + steps) / m), 2^(24 + steps) mod m>> by long division, from
\* <<q, r>> = <<floor(2^24 / m), 2^24 mod m>>
RECURSIVE LongDivision(_, _, _, _)
LongDivision(steps, q, r, m) ==
    IF steps = 0
    THEN <<q, r>>
    ELSE LongDivision(steps - 1, 2 * q + ((2 * r) \div m), (2 * r) % m, m)

\* the number 2^20 / w rounded to the nearest integer, halves upward, for a
\* float w = m * 2^e with e <= -10
NearestOfExactQuotient(w) ==
    LET p == LongDivision(-4 - w[2], MantMax \div w[1], MantMax % w[1], w[1])
    IN  p[1] + (IF 2 * p[2] >= w[1] THEN 1 ELSE 0)

\* the distance add_weight may leave between average_time_between_events and
\* the nearest integer q of 2^20 / w: the quotient 1.0f / w is a float of 24
\* significant bits, and the sum with 0.5f is rounded to a float again
SinglePrecisionError(q) == Max(1, q \div MantMax)

\* the step is an add_weight of a weight in range that returned
AddInRangeStep == AddStep /\ last_op'.outcome = "ok" /\ InRange(last_op'.w)

\* what C22 says of the entry appended, but for the value of its
\* average_time_between_events
AppendsOneEntry ==
    /\ Len(weights') = Len(weights) + 1
    /\ \A k \in 1 .. Len(weights) : weights'[k] = weights[k]
    /\ LET new == weights'[Len(weights')]
       IN  /\ new.original_index = Len(weights)
           /\ new.average_time_between_events >= 1
           /\ new.next_event_time = ToU32(new.average_time_between_events)

(* C22 as stated: add_weight with w in [1/1024, 10240] appends exactly one   *)
(* entry, whose original_index is the number of entries before the call,     *)
(* whose average_time_between_events is the number 2^20 / w rounded to the   *)
(* nearest integer and is at least 1, and whose next_event_time equals it;   *)
(* the entries registered before are unchanged.                              *)
AverageIsNearestOfQuotient ==
    [][AddInRangeStep =>
          /\ AppendsOneEntry
          /\ weights'[Len(weights')].average_time_between_events
                = NearestOfExactQuotient(last_op'.w)]_vars

(* C22 as amended: average_time_between_events is within max(1, q / 2^24) of *)
(* q, the number 2^20 / w rounded to the nearest integer, and is at least 1; *)
(* the rest as stated.                                                       *)
AverageIsNearSinglePrecisionQuotient ==
    [][AddInRangeStep =>
          /\ AppendsOneEntry
          /\ LET q == NearestOfExactQuotient(last_op'.w)
             IN  Abs(weights'[Len(weights')].average_time_between_events - q)
                   <= SinglePrecisionError(q)]_vars

\* 1.25 / 1024 registered third, after an initialize_randomness: the quotient
\* is 858993459.2, the entry has 858993472
AverageIsNearSinglePrecisionQuotientWitness ==
    /\ arg = <<<<10485760, -33>>>>
    /\ last_op.op = "add_weight" /\ last_op.outcome = "ok"
    /\ ninits >= 1
    /\ Len(weights) = 3
    /\ weights[3].average_time_between_events = 858993472
    /\ NearestOfExactQuotient(arg[1]) = 858993459
    /\ weights[3].original_index = 2
    /\ weights[1].next_event_time # ToU32(weights[1].average_time_between_events)

====
